---- MODULE Spec2Model ----
(***************************************************************************)
(* Model of scripts/ma.py: the article pipeline of ArticleManager          *)
(* (read_article, extract_metadata, generate_categories_and_tags,          *)
(* generate_html_content, create_full_html_page, process_article) and of   *)
(* main.                                                                   *)
(*                                                                         *)
(* A Python str is a sequence of characters; a character is a one-token    *)
(* string.  The Japanese characters of the source are written as tokens    *)
(* naming their code point ("u7b97" is U+7B97).                            *)
(***************************************************************************)
EXTENDS Integers, Sequences, FiniteSets, TLC

VARIABLES
    pc,               \* position of the run inside main / process_article
    args,             \* the parsed command line (argparse namespace)
    article_file,     \* the article file on disk: its text, or NoFile
    content,          \* process_article: content
    metadata,         \* process_article: metadata
    generated,        \* process_article: generated
    html_content,     \* process_article: html_content
    output_filename,  \* process_article: output_filename
    full_html,        \* process_article: full_html
    calls,            \* the requests sent to the text-generation service
    written,          \* the writes made to the output directory
    failed            \* the pipeline steps in which an exception was raised

vars == <<pc, args, article_file, content, metadata, generated, html_content,
          output_filename, full_html, calls, written, failed>>

\* a str variable that holds no str; a dict variable that holds no dict
None == <<"<None>">>
NoneDict == [none |-> TRUE]
\* the exception a failed tuple assignment raises
ValueError == [error |-> "ValueError"]

-----------------------------------------------------------------------------
(* Python str primitives                                                   *)

Whitespace == {" ", "\n", "\t", "\r"}
Quotes == {"\"", "'"}
Brackets == {"[", "]"}

RECURSIVE lstrip(_, _)
lstrip(s, chars) ==
    IF s # <<>> /\ Head(s) \in chars THEN lstrip(Tail(s), chars) ELSE s

RECURSIVE rstrip(_, _)
rstrip(s, chars) ==
    IF s # <<>> /\ s[Len(s)] \in chars
    THEN rstrip(SubSeq(s, 1, Len(s) - 1), chars)
    ELSE s

strip(s, chars) == rstrip(lstrip(s, chars), chars)

startswith(s, prefix) ==
    Len(s) >= Len(prefix) /\ SubSeq(s, 1, Len(prefix)) = prefix

\* index of the leftmost occurrence of sep in s, 0 when there is none
find(s, sep) ==
    LET hits == {i \in 1..(Len(s) - Len(sep) + 1) :
                    SubSeq(s, i, i + Len(sep) - 1) = sep}
    IN  IF hits = {} THEN 0 ELSE CHOOSE i \in hits : \A j \in hits : i <= j

\* s.split(sep, maxsplit); maxsplit = -1 is no limit
RECURSIVE split(_, _, _)
split(s, sep, maxsplit) ==
    LET i == find(s, sep)
    IN  IF maxsplit = 0 \/ i = 0
        THEN <<s>>
        ELSE <<SubSeq(s, 1, i - 1)>>
             \o split(SubSeq(s, i + Len(sep), Len(s)), sep, maxsplit - 1)

\* sep.join(items)
RECURSIVE join(_, _)
join(sep, items) ==
    IF items = <<>> THEN <<>>
    ELSE IF Len(items) = 1 THEN items[1]
    ELSE items[1] \o sep \o join(sep, Tail(items))

-----------------------------------------------------------------------------
(* ArticleManager.extract_metadata                                         *)

kTitle == <<"t", "i", "t", "l", "e">>
kDescription == <<"d", "e", "s", "c", "r", "i", "p", "t", "i", "o", "n">>
kCategory == <<"c", "a", "t", "e", "g", "o", "r", "y">>
kTags == <<"t", "a", "g", "s">>
kReferences == <<"r", "e", "f", "e", "r", "e", "n", "c", "e", "s">>
Delimiter == <<"-", "-", "-">>

EmptyMetadata ==
    [title |-> <<>>, description |-> <<>>, category |-> <<>>,
     tags |-> <<>>, references |-> <<>>]

\* [t.strip().strip('"\'') for t in value.strip('[]').split(',')]
parse_list(value) ==
    LET items == split(strip(value, Brackets), <<",">>, -1)
    IN  [i \in 1..Len(items) |-> strip(strip(items[i], Whitespace), Quotes)]

\* the split without its maxsplit: line.split(':')
split_key_value_unbounded(line) == split(line, <<":">>, -1)

\* line.split(':', 1)
split_key_value(line) == split(line, <<":">>, 1)

\* the body of the loop over the frontmatter lines; the tuple assignment
\* key, value = ... raises ValueError unless the split has two parts
parse_line(md, line) ==
    IF md = ValueError \/ find(line, <<":">>) = 0 THEN md
    ELSE LET kv == split_key_value(line)
         IN  IF Len(kv) # 2 THEN ValueError
             ELSE LET key == strip(kv[1], Whitespace)
                      value == strip(kv[2], Whitespace)
                  IN  IF key = kTitle
                      THEN [md EXCEPT !.title = strip(value, Quotes)]
                      ELSE IF key = kDescription
                      THEN [md EXCEPT !.description = strip(value, Quotes)]
                      ELSE IF key = kCategory
                      THEN [md EXCEPT !.category = strip(value, Quotes)]
                      ELSE IF key = kTags
                      THEN [md EXCEPT !.tags = parse_list(value)]
                      ELSE IF key = kReferences
                      THEN [md EXCEPT !.references = parse_list(value)]
                      ELSE md

RECURSIVE parse_lines(_, _)
parse_lines(md, lines) ==
    IF lines = <<>> THEN md
    ELSE parse_lines(parse_line(md, Head(lines)), Tail(lines))

extract_metadata(text) ==
    IF startswith(text, Delimiter)
    THEN LET parts == split(text, Delimiter, 2)
         IN  IF Len(parts) >= 3
             THEN parse_lines(EmptyMetadata,
                              split(strip(parts[2], Whitespace), <<"\n">>, -1))
             ELSE EmptyMetadata
    ELSE EmptyMetadata

-----------------------------------------------------------------------------
(* The output filename (process_article)                                   *)

Uppercase ==
    <<"A", "B", "C", "D", "E", "F", "G", "H", "I", "J", "K", "L", "M",
      "N", "O", "P", "Q", "R", "S", "T", "U", "V", "W", "X", "Y", "Z">>
Lowercase ==
    <<"a", "b", "c", "d", "e", "f", "g", "h", "i", "j", "k", "l", "m",
      "n", "o", "p", "q", "r", "s", "t", "u", "v", "w", "x", "y", "z">>
Digits == {"0", "1", "2", "3", "4", "5", "6", "7", "8", "9"}
\* the kana and kanji of the category names: letters to the re module
Kana == {"u30db", "u30fc", "u30e0", "u30b3", "u30c4"}
Kanji == {"u7b97", "u6570", "u56fd", "u8a9e", "u7406", "u79d1", "u793e",
          "u4f1a", "u52c9", "u5f37", "u6cd5", "u6b74", "u53f2"}

Range(f) == {f[i] : i \in DOMAIN f}

\* \w
WordChars == Range(Uppercase) \cup Range(Lowercase) \cup Digits \cup {"_"}
                \cup Kana \cup Kanji

\* str.lower
lower_char(c) ==
    IF c \in Range(Uppercase)
    THEN Lowercase[CHOOSE i \in DOMAIN Uppercase : Uppercase[i] = c]
    ELSE c

lower(s) == [i \in 1..Len(s) |-> lower_char(s[i])]

\* re.sub(r'[^\w\s-]', '', s)
remove_punctuation(s) ==
    SelectSeq(s, LAMBDA c : c \in WordChars \cup Whitespace \cup {"-"})

\* re.sub(r'[-\s]+', '-', s)
RECURSIVE collapse_separators(_)
collapse_separators(s) ==
    IF s = <<>> THEN <<>>
    ELSE IF Head(s) \in Whitespace \cup {"-"}
    THEN <<"-">> \o collapse_separators(lstrip(Tail(s), Whitespace \cup {"-"}))
    ELSE <<Head(s)>> \o collapse_separators(Tail(s))

DotHtml == <<".", "h", "t", "m", "l">>

\* pathlib: PurePath.stem of a path that is a bare file name
stem(name) ==
    LET dots == {i \in 1..Len(name) : name[i] = "."}
        i == IF dots = {} THEN 0 ELSE CHOOSE d \in dots : \A e \in dots : e <= d
    IN  IF 1 < i /\ i < Len(name) THEN SubSeq(name, 1, i - 1) ELSE name

\* lines 276-283: output_filename is None or a str; "not output_filename"
\* holds of None and of the empty str
determine_output_filename(given, md, article_name) ==
    IF given # None /\ given # <<>> THEN given
    ELSE IF md.title # <<>>
    THEN lower(collapse_separators(remove_punctuation(md.title))) \o DotHtml
    ELSE stem(article_name) \o DotHtml

-----------------------------------------------------------------------------
(* ArticleManager.create_full_html_page                                    *)

IndexHtml == <<"i", "n", "d", "e", "x", ".", "h", "t", "m", "l">>
MathHtml == <<"m", "a", "t", "h", ".", "h", "t", "m", "l">>
JapaneseHtml == <<"j", "a", "p", "a", "n", "e", "s", "e", ".", "h", "t", "m", "l">>
ScienceHtml == <<"s", "c", "i", "e", "n", "c", "e", ".", "h", "t", "m", "l">>
SocialHtml == <<"s", "o", "c", "i", "a", "l", ".", "h", "t", "m", "l">>
TipsHtml == <<"t", "i", "p", "s", ".", "h", "t", "m", "l">>

Home == <<"u30db", "u30fc", "u30e0">>
Math == <<"u7b97", "u6570">>
Japanese == <<"u56fd", "u8a9e">>
Science == <<"u7406", "u79d1">>
Social == <<"u793e", "u4f1a">>
Tips == <<"u30b3", "u30c4", "u30fb", "u52c9", "u5f37", "u6cd5">>

\* a dict keeps its insertion order: the items of nav_links in order
nav_links ==
    << <<IndexHtml, Home>>, <<MathHtml, Math>>, <<JapaneseHtml, Japanese>>,
       <<ScienceHtml, Science>>, <<SocialHtml, Social>>, <<TipsHtml, Tips>> >>

category_to_file ==
    << <<Math, MathHtml>>, <<Japanese, JapaneseHtml>>, <<Science, ScienceHtml>>,
       <<Social, SocialHtml>>, <<Tips, TipsHtml>> >>

\* category_to_file.get(category, output_filename)
active_page(category, filename) ==
    IF \E i \in DOMAIN category_to_file : category_to_file[i][1] = category
    THEN category_to_file[CHOOSE i \in DOMAIN category_to_file :
                             category_to_file[i][1] = category][2]
    ELSE filename

\* the link of the page itself marked as well as the category's
is_active_or_self(file, category, filename) ==
    file = active_page(category, filename) \/ file = filename

\* ' active' if file == active_page else ''
is_active(file, category, filename) == file = active_page(category, filename)

\* the page as the values spliced into the fixed template
create_full_html_page(html, md, filename) ==
    [title |-> md.title,
     description |-> md.description,
     nav |-> [i \in DOMAIN nav_links |->
                [href |-> nav_links[i][1],
                 label |-> nav_links[i][2],
                 active |-> is_active(nav_links[i][1], md.category, filename)]],
     breadcrumb |-> md.title,
     main |-> html]

-----------------------------------------------------------------------------
(* The runs: command lines, article files, replies of the service          *)

General == <<"G", "e", "n", "e", "r", "a", "l">>
History == <<"u6b74", "u53f2">>
OutHtml == <<"o", "u", "t", ".", "h", "t", "m", "l">>

\* a frontmatter line "key: value\n"
Line(key, value) == key \o <<":", " ">> \o value \o <<"\n">>

TitleLines ==
    {<<>>,
     Line(kTitle, <<"M", "a", "t", "h">>),
     Line(kTitle, <<"\"", "a", " ", "b", "\"">>),
     Line(kTitle, <<"!", "?">>),
     Line(kTitle, <<"A", " ", "-", " ", "b", "!">>)}
CategoryLines ==
    {<<>>, Line(kCategory, Math), Line(kCategory, History),
     Line(kCategory, <<"\"", "\"">>)}
TagsLines ==
    {<<>>, Line(kTags, <<"[", "]">>),
     Line(kTags, <<"[", "x", ",", " ", "y", "]">>)}
ReferencesLines ==
    {<<>>, Line(kReferences, <<"p", ".", "h", "t", "m", "l">>)}

Body == <<"b", "o", "d", "y">>

\* the article texts of the runs: a frontmatter block and a body, a body
\* alone, the empty file, a frontmatter block that is never closed
Articles ==
    {Delimiter \o <<"\n">> \o t \o c \o g \o r \o Delimiter \o <<"\n">> \o Body :
        t \in TitleLines, c \in CategoryLines, g \in TagsLines,
        r \in ReferencesLines}
    \cup {Body, <<>>, Delimiter \o <<"\n">> \o Line(kTitle, <<"x">>)}

NoFile == <<"<NoFile>">>

ArticleNames ==
    {<<"a", "r", "t", "i", "c", "l", "e", ".", "m", "d">>,
     <<"n", "o", "t", "e", "s">>}

\* -o absent, -o "" and two names
OutputArgs == {None, <<>>, IndexHtml, OutHtml}

Args ==
    [article : ArticleNames, output : OutputArgs, list : BOOLEAN,
     api_key : BOOLEAN]

\* the JSON objects the service may answer with: any of the three keys may
\* be missing
ReplyKeys == {"category", "tags", "related_pages"}
ReplyObjects ==
    {[k \in K |-> CASE k = "category" -> c
                    [] k = "tags" -> << <<"t">> >>
                    [] OTHER -> << <<"r", ".", "h", "t", "m", "l">> >>] :
        K \in SUBSET ReplyKeys, c \in {Science, History}}

\* chat.completions.create raises; the reply is not JSON; the reply is a
\* JSON array; the reply is a JSON object
CategoryReplies ==
    {[kind |-> "api_error"], [kind |-> "invalid_json"], [kind |-> "json_list"]}
    \cup {[kind |-> "json_object", items |-> d] : d \in ReplyObjects}

\* chat.completions.create raises; the message has no content; the message
\* has a content
HtmlReplies ==
    {[kind |-> "api_error"], [kind |-> "no_content"],
     [kind |-> "content", text |-> <<" ", "<", "p", ">", "\n">>]}

-----------------------------------------------------------------------------
(* ArticleManager.generate_categories_and_tags, lines 147-164              *)

DefaultGenerated ==
    [type |-> "dict",
     items |-> [k \in ReplyKeys |-> IF k = "category" THEN General ELSE <<>>]]

\* what the try block returns, or the except block
categories_result(reply) ==
    IF reply.kind = "json_object" THEN [type |-> "dict", items |-> reply.items]
    ELSE IF reply.kind = "json_list" THEN [type |-> "list"]
    ELSE DefaultGenerated

\* markdown_content[:1000]
PromptLimit == 1000

categories_prompt(text) ==
    [markdown_content |->
        SubSeq(text, 1, IF Len(text) < PromptLimit THEN Len(text) ELSE PromptLimit)]

(* process_article, lines 260-268                                          *)

\* a dict's get
get(d, k, default) == IF k \in DOMAIN d THEN d[k] ELSE default

\* "not metadata.get('category') or not metadata.get('tags')"
needs_generation(md) == md.category = <<>> \/ md.tags = <<>>

\* the category filled without the test of line 263
fill_category_overwrite(md, gen) ==
    [md EXCEPT !.category = get(gen, "category", General)]

fill_category(md, gen) ==
    IF md.category = <<>>
    THEN [md EXCEPT !.category = get(gen, "category", General)]
    ELSE md

fill_tags(md, gen) ==
    IF md.tags = <<>> THEN [md EXCEPT !.tags = get(gen, "tags", <<>>)] ELSE md

fill_references(md, gen) ==
    IF md.references = <<>>
    THEN [md EXCEPT !.references = get(gen, "related_pages", <<>>)]
    ELSE md

merge_generated(md, gen) == fill_references(fill_tags(fill_category(md, gen), gen), gen)

(* ArticleManager.generate_html_content                                    *)

html_prompt(text, md) ==
    [title |-> md.title,
     category |-> md.category,
     tags |-> join(<<",", " ">>, md.tags),
     references |-> join(<<",", " ">>, md.references),
     markdown_content |-> text]

Exception == <<"<Exception>">>

\* the except block returning an empty fragment instead of raising
html_result_swallowed(reply) ==
    IF reply.kind = "content" THEN strip(reply.text, Whitespace) ELSE <<>>

\* response.choices[0].message.content.strip(), or the exception raised
html_result(reply) ==
    IF reply.kind = "content" THEN strip(reply.text, Whitespace) ELSE Exception

(* ArticleManager.read_article                                             *)

\* a missing file read as an empty article
read_article_missing_as_empty(file) == IF file = NoFile THEN <<>> ELSE file

\* the text of the file, or FileNotFoundError
read_article(file) == IF file = NoFile THEN Exception ELSE file

-----------------------------------------------------------------------------
(* main and process_article, one action per step.  The print calls, and    *)
(* with them the -u option (lines 288-289, 299), write to stdout only and  *)
(* are left out.                                                           *)

Fail(step) ==
    /\ pc' = "error"
    /\ failed' = failed \cup {step}

\* main, lines 341-353: the constructor raises ValueError without an API key
main_init ==
    /\ pc = "main"
    /\ IF ~args.api_key
       THEN Fail("init")
       ELSE /\ pc' = IF args.list THEN "list_articles" ELSE "read_article"
            /\ UNCHANGED failed
    /\ UNCHANGED <<args, article_file, content, metadata, generated,
                   html_content, output_filename, full_html, calls, written>>

\* main, lines 345-350
list_articles ==
    /\ pc = "list_articles"
    /\ pc' = "done"
    /\ UNCHANGED <<args, article_file, content, metadata, generated,
                   html_content, output_filename, full_html, calls, written,
                   failed>>

\* process_article, line 253
read_article_step ==
    /\ pc = "read_article"
    /\ failed' = IF article_file = NoFile THEN failed \cup {"load"} ELSE failed
    /\ LET text == read_article(article_file)
       IN  IF text = Exception
           THEN pc' = "error" /\ UNCHANGED content
           ELSE content' = text /\ pc' = "extract_metadata"
    /\ UNCHANGED <<args, article_file, metadata, generated, html_content,
                   output_filename, full_html, calls, written>>

\* process_article, lines 256-260
extract_metadata_step ==
    /\ pc = "extract_metadata"
    /\ LET md == extract_metadata(content)
       IN  /\ metadata' = md
           /\ IF md = ValueError
              THEN Fail("parse")
              ELSE /\ pc' = IF needs_generation(md)
                            THEN "generate_categories_and_tags"
                            ELSE "generate_html_content"
                   /\ UNCHANGED failed
    /\ UNCHANGED <<args, article_file, content, generated, html_content,
                   output_filename, full_html, calls, written>>

\* process_article, line 262: the call of generate_categories_and_tags,
\* which catches every exception of its try block
generate_categories_and_tags ==
    /\ pc = "generate_categories_and_tags"
    /\ \E reply \in CategoryReplies :
          /\ calls' = Append(calls, [service |-> "categories",
                                     prompt |-> categories_prompt(content)])
          /\ generated' = categories_result(reply)
          /\ failed' = IF reply.kind \in {"api_error", "invalid_json"}
                       THEN failed \cup {"infer"}
                       ELSE failed
    /\ pc' = "merge_generated"
    /\ UNCHANGED <<args, article_file, content, metadata, html_content,
                   output_filename, full_html, written>>

\* process_article, lines 263-268: generated.get raises AttributeError when
\* generated is a list
merge_generated_step ==
    /\ pc = "merge_generated"
    /\ IF generated.type # "dict"
       THEN Fail("merge") /\ UNCHANGED metadata
       ELSE /\ metadata' = merge_generated(metadata, generated.items)
            /\ pc' = "generate_html_content"
            /\ UNCHANGED failed
    /\ UNCHANGED <<args, article_file, content, generated, html_content,
                   output_filename, full_html, calls, written>>

\* process_article, line 273: the call of generate_html_content, which
\* raises every exception of its try block again
generate_html_content ==
    /\ pc = "generate_html_content"
    /\ calls' = Append(calls, [service |-> "html",
                               prompt |-> html_prompt(content, metadata)])
    /\ \E reply \in HtmlReplies :
          /\ failed' = IF reply.kind # "content"
                       THEN failed \cup {"convert"}
                       ELSE failed
          /\ LET html == html_result(reply)
             IN  IF html = Exception
                 THEN pc' = "error" /\ UNCHANGED html_content
                 ELSE html_content' = html /\ pc' = "create_full_html_page"
    /\ UNCHANGED <<args, article_file, content, metadata, generated,
                   output_filename, full_html, written>>

\* process_article, lines 276-293
create_full_html_page_step ==
    /\ pc = "create_full_html_page"
    /\ output_filename' =
          determine_output_filename(args.output, metadata, args.article)
    /\ full_html' =
          create_full_html_page(html_content, metadata, output_filename')
    /\ pc' = "write"
    /\ UNCHANGED <<args, article_file, content, metadata, generated,
                   html_content, calls, written, failed>>

\* process_article, lines 296-297: open raises OSError, or the page is
\* written
write_step ==
    /\ pc = "write"
    /\ \E opened \in BOOLEAN :
          IF opened
          THEN /\ written' = Append(written, [path |-> output_filename,
                                              data |-> full_html])
               /\ pc' = "done"
               /\ UNCHANGED failed
          ELSE Fail("write") /\ UNCHANGED written
    /\ UNCHANGED <<args, article_file, content, metadata, generated,
                   html_content, output_filename, full_html, calls>>

Init ==
    /\ pc = "main"
    /\ args \in Args
    /\ article_file \in Articles \cup {NoFile}
    /\ content = None
    /\ metadata = NoneDict
    /\ generated = NoneDict
    /\ html_content = None
    /\ output_filename = None
    /\ full_html = NoneDict
    /\ calls = <<>>
    /\ written = <<>>
    /\ failed = {}

Next ==
    \/ main_init
    \/ list_articles
    \/ read_article_step
    \/ extract_metadata_step
    \/ generate_categories_and_tags
    \/ merge_generated_step
    \/ generate_html_content
    \/ create_full_html_page_step
    \/ write_step

Spec == Init /\ [][Next]_vars

-----------------------------------------------------------------------------
(* extract_metadata on its own, over frontmatter texts of every shape      *)

MaxLines == 2

MetaPrefixes ==
    {<<>>, Delimiter, Delimiter \o <<"\n">>, <<"-", "-">>}
MetaSuffixes ==
    {<<>>, Delimiter, <<"\n">> \o Delimiter \o <<"\n">> \o Body,
     <<"-", "-", "\n">>}
MetaLines ==
    {<<>>,
     <<"n", "o", " ", "c", "o", "l", "o", "n">>,
     <<":">>,
     kTitle \o <<":", " ", "\"", "T", "\"">>,
     kTitle \o <<":", "a", ":", "b">>,
     kDescription \o <<":", " ", "'", "d", "'", " ">>,
     <<" ">> \o kCategory \o <<" ", ":", " ", "c">>,
     kTags \o <<":">>,
     kTags \o <<":", " ", "[", "]">>,
     kTags \o <<":", " ", "[", "\"", "x", "\"", ",", " ", "'", "y", "'", "]">>,
     kTags \o <<":", " ", "x", ",", ",", "y">>,
     kReferences \o <<":", " ", "[", " ", "p", " ", ",", " ", "q", " ", "]">>}

MetaInputs ==
    {prefix \o join(<<"\n">>, lines) \o suffix :
        prefix \in MetaPrefixes,
        lines \in UNION {[1..n -> MetaLines] : n \in 0..MaxLines},
        suffix \in MetaSuffixes}

InitMeta ==
    /\ pc = "extract_metadata"
    /\ args = [article |-> <<"n", "o", "t", "e", "s">>, output |-> None,
               list |-> FALSE, api_key |-> TRUE]
    /\ content \in MetaInputs
    /\ article_file = content
    /\ metadata = NoneDict
    /\ generated = NoneDict
    /\ html_content = None
    /\ output_filename = None
    /\ full_html = NoneDict
    /\ calls = <<>>
    /\ written = <<>>
    /\ failed = {}

NextMeta == extract_metadata_step

SpecMeta == InitMeta /\ [][NextMeta]_vars

-----------------------------------------------------------------------------
(* Properties                                                              *)

CallsOf(service) == {i \in DOMAIN calls : calls[i].service = service}

\* the metadata as extract_metadata returned it, before any generation
Parsed == extract_metadata(content)

\* a list with an item that is not the empty str
HasItem(list) == \E i \in DOMAIN list : list[i] # <<>>

\* the frontmatter names a category; the frontmatter names a tag
GivesCategory == Parsed.category # <<>>
GivesTags == HasItem(Parsed.tags)
GivesReferences == HasItem(Parsed.references)

\* process_article is past line 262
Decided == metadata # NoneDict /\ pc # "generate_categories_and_tags"

\* C1: in every run of process_article the inference service is called
\* exactly once when the frontmatter gives no category or gives no tags,
\* and not at all when it gives both.
C1_InferenceCalledIffMissing ==
    Decided =>
        Cardinality(CallsOf("categories")) =
            IF GivesCategory /\ GivesTags THEN 0 ELSE 1

\* C2 as stated: whenever any pipeline step fails, the inference call
\* included, the run ends in the error outcome.
C2_AnyFailureEndsRun == failed # {} => pc = "error"

\* C2, amended: a failure of loading, of the conversion call or of the
\* write (or of any step but the inference call) ends the run in the error
\* outcome, and nothing happens after the error outcome: no service call,
\* no write.
C2_HardFailureEndsRun ==
    /\ failed \ {"infer"} # {} => pc = "error"
    /\ pc = "error" => ~ENABLED Next

C2_Witness ==
    /\ pc = "error"
    /\ failed = {"infer", "convert"}
    /\ Len(calls) = 2
    /\ written = <<>>

\* C3: the output file is written at most once and only after the article
\* was loaded and the conversion call returned; when the article is missing
\* or the conversion fails nothing is written, and a missing article causes
\* no service call.
C3_WriteOnlyAfterConversion ==
    /\ Len(written) <= 1
    /\ written # <<>> =>
          /\ content # None
          /\ html_content # None
          /\ CallsOf("html") # {}
          /\ "convert" \notin failed
    /\ (article_file = NoFile \/ "convert" \in failed) => written = <<>>
    /\ article_file = NoFile => calls = <<>>

C3_Witness ==
    /\ pc = "done"
    /\ Len(written) = 1
    /\ written[1].data.main = html_content

\* the text neither starts with the delimiter nor has a second one
NoFrontmatter(text) ==
    \/ ~startswith(text, Delimiter)
    \/ \A i \in 4..(Len(text) - 2) : SubSeq(text, i, i + 2) # Delimiter

MetadataFields == {"title", "description", "category", "tags", "references"}

\* C4: extract_metadata raises on no input and returns a record of exactly
\* the five fields; without a frontmatter block the five fields keep their
\* defaults.
C4_ExtractMetadataTotal ==
    metadata # NoneDict =>
        /\ metadata # ValueError
        /\ DOMAIN metadata = MetadataFields
        /\ NoFrontmatter(content) =>
              /\ metadata.title = <<>>
              /\ metadata.description = <<>>
              /\ metadata.category = <<>>
              /\ metadata.tags = <<>>
              /\ metadata.references = <<>>

C4_Witness ==
    /\ metadata \notin {NoneDict, ValueError}
    /\ startswith(content, Delimiter)
    /\ NoFrontmatter(content)
    /\ find(content, kTitle \o <<":">>) # 0
    /\ metadata.title = <<>>

\* the text after the frontmatter block
BodyOf(text) == split(text, Delimiter, 2)[3]

\* C5: the text handed to the conversion service is the markdown body: a
\* frontmatter block is not part of it.
C5_BodySentForConversion ==
    \A i \in CallsOf("html") :
        ~NoFrontmatter(content) =>
            calls[i].prompt.markdown_content = BodyOf(content)

\* C6: the output filename is the one given; else the title without its
\* punctuation, separators collapsed, lowercased, plus '.html'; else the
\* article's stem plus '.html'; a title that is not empty gives a base name
\* that is not empty.
C6_OutputFilename ==
    output_filename # None =>
        IF args.output \notin {None, <<>>}
        THEN output_filename = args.output
        ELSE IF metadata.title # <<>>
        THEN /\ output_filename =
                   lower(collapse_separators(remove_punctuation(metadata.title)))
                   \o DotHtml
             /\ Len(output_filename) > Len(DotHtml)
        ELSE output_filename = stem(args.article) \o DotHtml

\* C7: a failed inference call does not end the run: it returns category
\* 'General', no tags and no related pages, and the conversion and the
\* write go on with category 'General' and no tags wherever the
\* frontmatter gave none.
C7_InferenceFailureDefaults ==
    "infer" \in failed =>
        /\ generated = DefaultGenerated
        /\ pc = "error" => failed # {"infer"}
        /\ pc \in {"generate_html_content", "create_full_html_page", "write",
                   "done"} =>
              /\ ~GivesCategory => metadata.category = General
              /\ ~GivesTags => metadata.tags = <<>>

\* C8: what the frontmatter gave is never overwritten: a category, tags or
\* references it gave have, at the conversion call and at the write, the
\* value parsed from it; and when it gives both a category and tags the
\* service is not asked and the references stay as parsed.
C8_FrontmatterKept ==
    metadata # NoneDict =>
        LET parsed == Parsed
            category == parsed.category # <<>>
            tags == HasItem(parsed.tags)
            references == HasItem(parsed.references)
        IN  /\ category => metadata.category = parsed.category
            /\ tags => metadata.tags = parsed.tags
            /\ references => metadata.references = parsed.references
            /\ (category /\ tags) =>
                  /\ metadata.references = parsed.references
                  /\ generated = NoneDict
            /\ \A i \in CallsOf("html") :
                  /\ category => calls[i].prompt.category = parsed.category
                  /\ tags =>
                        calls[i].prompt.tags = join(<<",", " ">>, parsed.tags)
                  /\ references =>
                        calls[i].prompt.references =
                            join(<<",", " ">>, parsed.references)

C8_Witness ==
    /\ pc = "done"
    /\ Len(written) = 1
    /\ GivesCategory
    /\ ~GivesTags
    /\ generated # NoneDict
    /\ generated.type = "dict"
    /\ "category" \in DOMAIN generated.items
    /\ generated.items["category"] # Parsed.category
    /\ metadata.category = Parsed.category

NavFiles ==
    <<IndexHtml, MathHtml, JapaneseHtml, ScienceHtml, SocialHtml, TipsHtml>>
NavLabels == <<Home, Math, Japanese, Science, Social, Tips>>
KnownCategories == {Math, Japanese, Science, Social, Tips}

ActiveLinks(page) == {i \in DOMAIN page.nav : page.nav[i].active}

\* C9: the navigation of every page has the six fixed links in their fixed
\* order and at most one active link: exactly one when the category is one
\* of the five known ones, and none when it is not, unless the output
\* filename is itself one of the six files.
C9_Navigation ==
    full_html # NoneDict =>
        /\ [i \in DOMAIN full_html.nav |-> full_html.nav[i].href] = NavFiles
        /\ [i \in DOMAIN full_html.nav |-> full_html.nav[i].label] = NavLabels
        /\ Cardinality(ActiveLinks(full_html)) <= 1
        /\ metadata.category \in KnownCategories =>
              Cardinality(ActiveLinks(full_html)) = 1
        /\ (/\ metadata.category \notin KnownCategories
            /\ output_filename \notin Range(NavFiles)) =>
              ActiveLinks(full_html) = {}

C9_Witness ==
    /\ pc = "done"
    /\ Len(written) = 1
    /\ metadata.category = Math
    /\ output_filename = IndexHtml
    /\ ActiveLinks(written[1].data) = {2}

\* C10: a tags or references line is parsed as the list of its items: an
\* empty list or an empty value gives the empty list, and no parsed list
\* has an empty str among its items.
C10_NoEmptyItem ==
    metadata \notin {NoneDict, ValueError} =>
        /\ \A i \in DOMAIN metadata.tags : metadata.tags[i] # <<>>
        /\ \A i \in DOMAIN metadata.references : metadata.references[i] # <<>>

====
